---- MODULE Spec2Model ----
(***************************************************************************)
(* A model of lastfm.py: the poll loop of main(), get_current_track(),     *)
(* get_track_hash(), create_now_playing_block() and update_repo() with the *)
(* README file and the git repository it publishes to.                     *)
(*                                                                         *)
(* Text is a sequence of characters.  A few fixed multi-character pieces   *)
(* of the program's own literals are kept as one element each (the marker  *)
(* "> **Now Playing:**", "[Last.fm](", "Updated:", a rendered timestamp);  *)
(* the operators below say, for every element, what the program's string   *)
(* operations see of it: whether it is a newline, whitespace, whether it   *)
(* begins with '>', and what re.sub's template parser does with it after a *)
(* backslash.                                                              *)
(***************************************************************************)
EXTENDS Integers, Sequences, FiniteSets, TLC

\* ------------------------------------------------------------------ bounds

\* The longest README, in pieces of ReadmePieces, the patch specification
\* starts from.
MaxChunks == 3

\* How many times the patch specification applies update_repo's patch.
MaxPatches == 2

\* The longest artist or name, in characters, the fingerprint specification
\* draws.
MaxHashFieldLen == 2

\* The commits on the branch at startup range over 0..MaxInitCommits.
MaxInitCommits == 1

\* ------------------------------------------------------------- characters

NL == "\n"
SP == " "
GT == ">"
BS == "\\"
Marker == "> **Now Playing:**"

\* The two timestamps datetime.now(indian_tz).strftime(...) renders here.
Stamps == {"2024-01-01 00:00:00 IST", "2024-01-01 00:01:00 IST"}

\* Optional values: None is the empty tuple, a value v is <<v>>.
None == <<>>
Some(v) == <<v>>

\* str.strip / str.rstrip with no argument remove whitespace.
IsSpace(c) == c \in {NL, SP}

\* What the pattern's '>' after a newline accepts: a '>' character, which
\* is also the first character of the marker.
StartsWithGT(c) == c \in {GT, Marker}

RECURSIVE rstrip(_)
rstrip(s) ==
    IF Len(s) = 0 THEN s
    ELSE IF IsSpace(s[Len(s)]) THEN rstrip(SubSeq(s, 1, Len(s) - 1))
    ELSE s

RECURSIVE lstrip(_)
lstrip(s) ==
    IF Len(s) = 0 THEN s
    ELSE IF IsSpace(s[1]) THEN lstrip(Tail(s))
    ELSE s

strip(s) == lstrip(rstrip(s))

\* ---------------------------------------------------------------- pattern
\* r"(> \*\*Now Playing:\*\*.*\n>.*\n>.*(?:\n>.*)*)"

\* '.*' from position i: the index of the last character it takes ('.' does
\* not match a newline), i - 1 when it takes none.
RECURSIVE LineEnd(_, _)
LineEnd(s, i) ==
    IF i > Len(s) \/ s[i] = NL THEN i - 1 ELSE LineEnd(s, i + 1)

\* '\n>' right after position e.
ContinuesAt(s, e) ==
    /\ e + 2 <= Len(s)
    /\ s[e + 1] = NL
    /\ StartsWithGT(s[e + 2])

\* '(?:\n>.*)*' after position e, greedy: the index of the last character.
RECURSIVE Greedy(_, _)
Greedy(s, e) ==
    IF ContinuesAt(s, e) THEN Greedy(s, LineEnd(s, e + 3)) ELSE e

\* A pattern that asks for one continuation line only:
\* r"(> \*\*Now Playing:\*\*.*\n>.*(?:\n>.*)*)"
MatchEnd_one_continuation(s, i) ==
    IF s[i] # Marker THEN 0
    ELSE LET e1 == LineEnd(s, i + 1) IN
         IF ~ContinuesAt(s, e1) THEN 0
         ELSE Greedy(s, LineEnd(s, e1 + 3))

\* The pattern matched at position i: the index of the last character of
\* the match, 0 when there is no match at i.
MatchEnd(s, i) ==
    IF s[i] # Marker THEN 0
    ELSE LET e1 == LineEnd(s, i + 1) IN
         IF ~ContinuesAt(s, e1) THEN 0
         ELSE LET e2 == LineEnd(s, e1 + 3) IN
              IF ~ContinuesAt(s, e2) THEN 0
              ELSE Greedy(s, LineEnd(s, e2 + 3))

\* The start of the leftmost match at or after position i, 0 when none.
RECURSIVE FindFrom(_, _)
FindFrom(s, i) ==
    IF i > Len(s) THEN 0
    ELSE IF MatchEnd(s, i) > 0 THEN i
    ELSE FindFrom(s, i + 1)

\* re.search(pattern, content)
re_search(s) == FindFrom(s, 1) > 0

\* --------------------------------------------------- replacement template
\* re.sub with a string replacement parses it as a template: a backslash
\* starts an escape.

IsDigit(c) == c \in {"1"} \cup Stamps
IsLetter(c) == c \in {"x", "I", "Updated:"}

\* Whether the template parses from position i (re.error otherwise).
RECURSIVE TemplateOK(_, _)
TemplateOK(t, i) ==
    IF i > Len(t) THEN TRUE
    ELSE IF t[i] # BS THEN TemplateOK(t, i + 1)
    ELSE IF i = Len(t) THEN FALSE                     \* bad escape (end of pattern)
    ELSE LET c == t[i + 1] IN
         IF c = BS THEN TemplateOK(t, i + 2)
         ELSE IF c = "1" THEN
              IF i + 2 <= Len(t) /\ t[i + 2] = "1" THEN
                   IF i + 3 <= Len(t) /\ t[i + 3] = "1"
                   THEN TemplateOK(t, i + 4)          \* octal escape \111
                   ELSE FALSE                         \* invalid group reference 11
              ELSE IF i + 2 <= Len(t) /\ IsDigit(t[i + 2]) THEN FALSE
              ELSE TemplateOK(t, i + 2)               \* group 1
         ELSE IF IsDigit(c) \/ IsLetter(c) THEN FALSE \* bad group, bad escape
         ELSE TemplateOK(t, i + 2)

\* The template expanded from position i for a match whose group 1 is g.
RECURSIVE Expand(_, _, _)
Expand(t, i, g) ==
    IF i > Len(t) THEN <<>>
    ELSE IF t[i] # BS \/ i = Len(t) THEN <<t[i]>> \o Expand(t, i + 1, g)
    ELSE LET c == t[i + 1] IN
         IF c = BS THEN <<BS>> \o Expand(t, i + 2, g)
         ELSE IF c = "1" THEN
              IF i + 3 <= Len(t) /\ t[i + 2] = "1" /\ t[i + 3] = "1"
              THEN <<"I">> \o Expand(t, i + 4, g)     \* chr(0o111)
              ELSE g \o Expand(t, i + 2, g)
         ELSE <<BS, c>> \o Expand(t, i + 2, g)

\* re.sub(pattern, repl, s) from position i: every non-overlapping match,
\* left to right, is replaced by the expanded template.
RECURSIVE SubFrom(_, _, _)
SubFrom(s, i, repl) ==
    IF i > Len(s) THEN <<>>
    ELSE LET e == MatchEnd(s, i) IN
         IF e > 0
         THEN Expand(repl, 1, SubSeq(s, i, e)) \o SubFrom(s, e + 1, repl)
         ELSE <<s[i]>> \o SubFrom(s, i + 1, repl)

re_sub(repl, s) == SubFrom(s, 1, repl)

\* ------------------------------------------------------------ the program

create_now_playing_block(t, now) ==
    <<Marker, SP>> \o t.name \o <<SP, "-", SP>> \o t.artist
        \o <<SP, "[">> \o t.album
        \o <<"]", NL, GT, SP, NL, GT, SP, "[Last.fm](">> \o t.url
        \o <<")", SP, "|", SP, "Updated:", SP, now>>

\* An append that keeps the content's trailing whitespace.
new_content_of_no_rstrip(content, new_block) ==
    IF re_search(content)
    THEN IF TemplateOK(strip(new_block), 1)
         THEN [raised |-> FALSE, text |-> re_sub(strip(new_block), content)]
         ELSE [raised |-> TRUE, text |-> content]
    ELSE [raised |-> FALSE, text |-> content \o <<NL, NL>> \o new_block]

\* Lines 76-79 of update_repo: the new content, or the exception re.sub
\* raises on a template it cannot parse.
new_content_of(content, new_block) ==
    IF re_search(content)
    THEN IF TemplateOK(strip(new_block), 1)
         THEN [raised |-> FALSE, text |-> re_sub(strip(new_block), content)]
         ELSE [raised |-> TRUE, text |-> content]
    ELSE [raised |-> FALSE, text |-> rstrip(content) \o <<NL, NL>> \o new_block]

\* md5(...).hexdigest() is taken as injective: the digest stands for the
\* string it was computed from.
md5_hexdigest(s) == Some(s)

get_track_hash(tr) ==
    IF tr # None
    THEN md5_hexdigest(tr[1].artist \o <<":">> \o tr[1].name \o <<":">> \o tr[1].album)
    ELSE None

\* user.getrecenttracks answered with a complete first event.
LoopTracks ==
    { [artist |-> <<"x">>, name |-> n, album |-> <<"x">>, url |-> u] :
        n \in {<<"x">>, <<BS, "x">>}, u \in {<<"x">>, <<"1">>} }

\* A first event of the answer: each of the four values is there (Some) or
\* its key is missing (None).
Event(t, missing) ==
    [artist |-> IF missing = "artist" THEN None ELSE Some(t.artist),
     name   |-> IF missing = "name" THEN None ELSE Some(t.name),
     album  |-> IF missing = "album" THEN None ELSE Some(t.album),
     url    |-> IF missing = "url" THEN None ELSE Some(t.url)]

\* What session.get can bring back: no answer at all, a status that
\* raise_for_status rejects, a body that is not JSON, JSON without the
\* "recenttracks" list, and JSON with the list of events (empty, or one
\* event, complete or with one key missing).
Responses ==
    { [kind |-> k, events |-> <<>>] :
        k \in {"network_error", "http_error", "malformed_body", "no_recenttracks", "json"} }
    \cup { [kind |-> "json", events |-> <<Event(t, m)>>] :
             t \in LoopTracks, m \in {"", "artist", "name", "album", "url"} }

Returned(v) == [raised |-> "", value |-> v]
Raised(e) == [raised |-> e, value |-> None]

\* get_current_track: the outcomes of one call on a response.  Only
\* requests.RequestException is caught (line 56): a connection error, the
\* HTTPError of raise_for_status and the JSONDecodeError of response.json()
\* are RequestExceptions (requests 2.27 and later; before, a malformed body
\* raised a plain ValueError); the KeyError and IndexError of lines 49-54
\* are not.
get_current_track(resp) ==
    IF resp.kind \in {"network_error", "http_error", "malformed_body"}
    THEN {Returned(None)}
    ELSE IF resp.kind = "no_recenttracks" THEN {Raised("KeyError")}
    ELSE IF Len(resp.events) = 0 THEN {Raised("IndexError")}
    ELSE LET ev == resp.events[1] IN
         IF None \in {ev.artist, ev.name, ev.album, ev.url} THEN {Raised("KeyError")}
         ELSE {Returned(Some([artist |-> ev.artist[1], name |-> ev.name[1],
                              album |-> ev.album[1], url |-> ev.url[1]]))}

\* A startup check that stops only when both values are missing.
config_missing_both(key, user) == ~key /\ ~user

\* Line 110: the startup check.
config_missing(key, user) == ~key \/ ~user

\* A main that calls update_repo in every cycle that fetched a track.
track_changed_always(current, last) == TRUE

\* Line 126: whether main calls update_repo.
track_changed(current, last) == current # last

\* Line 128: the fingerprint main remembers once update_repo has returned,
\* whatever update_repo did (it returns nothing and raises nothing).
hash_after_update(current, last) == current

\* A comparison that never finds the two texts equal.
no_changes_never(new, old) == FALSE

\* Line 81: update_repo returns early.
no_changes(new, old) == new = old

\* READMEs the loop starts from: a heading alone, a heading with a block an
\* earlier run left, and an empty file.
OldTrack == [artist |-> <<"x">>, name |-> <<"x">>, album |-> <<"x">>, url |-> <<"x">>]
LoopReadmes ==
    { <<"x", NL>>,
      <<"x", NL, NL>> \o create_now_playing_block(OldTrack, "2024-01-01 00:00:00 IST"),
      <<>> }

VARIABLES
    pc,                 \* where main (and update_repo under it) stands
    apiKeySet,          \* API_KEY is set and not empty
    usernameSet,        \* USERNAME is set and not empty
    last_track_hash,    \* main's last_track_hash
    response,           \* history: what session.get brought back this cycle
    track,              \* main's track: None or Some(record)
    current_track_hash, \* main's current_track_hash
    content,            \* update_repo's content
    new_content,        \* update_repo's new_content
    readme,             \* README.md on disk
    unstaged,           \* README.md was written since the last git add
    uncommitted,        \* README.md was staged since the last amend
    unpushed,           \* the tip commit was amended since the last push
    head,               \* the tip commit's message: None or Some(timestamp)
    commits,            \* the number of commits on the local branch
    startHash,          \* history: last_track_hash when the cycle began
    ops,                \* history: the steps update_repo completed this cycle
    failed,             \* history: the step that failed this cycle, "" if none
    published,          \* history: fingerprint of the last publish that ran to the end
    prevFailed,         \* history: fingerprint whose stage/amend/push failed last cycle
    patches,            \* patch specification: patches applied so far
    lastBlock,          \* patch specification: the block of the last patch
    prevBlock,          \* patch specification: the block of the patch before
    other,              \* fingerprint specification: a second record
    otherHash           \* fingerprint specification: its fingerprint

vars == <<pc, apiKeySet, usernameSet, last_track_hash, response, track, current_track_hash,
          content, new_content, readme, unstaged, uncommitted, unpushed, head, commits,
          startHash, ops, failed, published, prevFailed,
          patches, lastBlock, prevBlock, other, otherHash>>

config == <<apiKeySet, usernameSet>>
locals == <<content, new_content>>
repo == <<unstaged, uncommitted, unpushed, head, commits>>
pureVars == <<patches, lastBlock, prevBlock, other, otherHash>>

\* ------------------------------------------------------------------- main

Init ==
    /\ pc = "start"
    /\ apiKeySet \in BOOLEAN
    /\ usernameSet \in BOOLEAN
    /\ last_track_hash = None
    /\ response = None
    /\ track = None
    /\ current_track_hash = None
    /\ content = <<>>
    /\ new_content = <<>>
    /\ readme \in LoopReadmes
    /\ commits \in 0..MaxInitCommits
    /\ unstaged = FALSE
    /\ uncommitted = FALSE
    /\ unpushed = FALSE
    /\ head = IF commits = 0 THEN None ELSE Some("initial")
    /\ startHash = None
    /\ ops = <<>>
    /\ failed = ""
    /\ published = None
    /\ prevFailed = None
    /\ patches = 0
    /\ lastBlock = None
    /\ prevBlock = None
    /\ other = None
    /\ otherHash = None

\* Lines 110-114: a missing key or user name ends main before the loop.
ConfigError ==
    /\ pc = "start"
    /\ config_missing(apiKeySet, usernameSet)
    /\ pc' = "exited"
    /\ UNCHANGED <<config, last_track_hash, response, track, current_track_hash, locals, readme,
                   repo, startHash, ops, failed, published, prevFailed, pureVars>>

\* Lines 116-118: the repository is opened and the loop entered.
Startup ==
    /\ pc = "start"
    /\ ~config_missing(apiKeySet, usernameSet)
    /\ pc' = "fetch"
    /\ last_track_hash' = None
    /\ UNCHANGED <<config, response, track, current_track_hash, locals, readme,
                   repo, startHash, ops, failed, published, prevFailed, pureVars>>

\* Line 116: git.Repo raises when REPO_PATH holds no repository.
StartupNoRepo ==
    /\ pc = "start"
    /\ ~config_missing(apiKeySet, usernameSet)
    /\ pc' = "crashed_at_startup"
    /\ UNCHANGED <<config, last_track_hash, response, track, current_track_hash, locals, readme,
                   repo, startHash, ops, failed, published, prevFailed, pureVars>>

\* A fetch that forgets the remembered fingerprint when nothing is playing.
Fetch_forgets(resp, out) ==
    /\ pc = "fetch"
    /\ out \in get_current_track(resp)
    /\ response' = Some(resp)
    /\ startHash' = last_track_hash
    /\ ops' = <<>>
    /\ failed' = ""
    /\ prevFailed' = IF failed \in {"add", "commit", "push"} THEN current_track_hash ELSE None
    /\ IF out.raised # ""
       THEN /\ pc' = "crashed"
            /\ UNCHANGED <<track, current_track_hash, last_track_hash>>
       ELSE /\ track' = out.value
            /\ IF out.value = None
               THEN /\ pc' = "sleep"
                    /\ last_track_hash' = None
                    /\ UNCHANGED current_track_hash
               ELSE /\ current_track_hash' = get_track_hash(out.value)
                    /\ pc' = IF track_changed(get_track_hash(out.value), last_track_hash)
                             THEN "read" ELSE "sleep"
                    /\ UNCHANGED last_track_hash
    /\ UNCHANGED <<config, locals, readme, repo, published, pureVars>>

\* Lines 121-130: a cycle begins; the track is fetched and compared.
Fetch(resp, out) ==
    /\ pc = "fetch"
    /\ out \in get_current_track(resp)
    /\ response' = Some(resp)
    /\ startHash' = last_track_hash
    /\ ops' = <<>>
    /\ failed' = ""
    /\ prevFailed' = IF failed \in {"add", "commit", "push"} THEN current_track_hash ELSE None
    /\ IF out.raised # ""
       THEN /\ pc' = "crashed"
            /\ UNCHANGED <<track, current_track_hash>>
       ELSE /\ track' = out.value
            /\ IF out.value = None
               THEN /\ pc' = "sleep"
                    /\ UNCHANGED current_track_hash
               ELSE /\ current_track_hash' = get_track_hash(out.value)
                    /\ pc' = IF track_changed(get_track_hash(out.value), last_track_hash)
                             THEN "read" ELSE "sleep"
    /\ UNCHANGED <<config, last_track_hash, locals, readme, repo, published, pureVars>>

\* ------------------------------------------------------------ update_repo

\* Lines 70-71.
ReadReadme ==
    /\ pc = "read"
    /\ content' = readme
    /\ ops' = Append(ops, "read")
    /\ pc' = "patch"
    /\ UNCHANGED <<config, last_track_hash, response, track, current_track_hash, new_content,
                   readme, repo, startHash, failed, published, prevFailed, pureVars>>

\* Lines 70, 95: the file cannot be opened or read.
ReadReadmeFails ==
    /\ pc = "read"
    /\ failed' = "read"
    /\ pc' = "returned"
    /\ UNCHANGED <<config, last_track_hash, response, track, current_track_hash, locals,
                   readme, repo, startHash, ops, published, prevFailed, pureVars>>

\* Lines 73-83: the block is rendered and put into the content; re.sub may
\* raise (line 95), and unchanged content returns early (lines 81-83).
PatchContent(now) ==
    /\ pc = "patch"
    /\ LET r == new_content_of(content, create_now_playing_block(track[1], now)) IN
       IF r.raised
       THEN /\ failed' = "sub"
            /\ pc' = "returned"
            /\ UNCHANGED <<ops, new_content>>
       ELSE /\ new_content' = r.text
            /\ ops' = Append(ops, IF no_changes(r.text, content) THEN "same" ELSE "patch")
            /\ pc' = IF no_changes(r.text, content) THEN "returned" ELSE "write"
            /\ UNCHANGED failed
    /\ UNCHANGED <<config, last_track_hash, response, track, current_track_hash, content,
                   readme, repo, startHash, published, prevFailed, pureVars>>

\* Lines 85-86.
WriteReadme ==
    /\ pc = "write"
    /\ readme' = new_content
    /\ unstaged' = TRUE
    /\ ops' = Append(ops, "write")
    /\ pc' = "add"
    /\ UNCHANGED <<config, last_track_hash, response, track, current_track_hash, locals,
                   uncommitted, unpushed, head, commits, startHash, failed,
                   published, prevFailed, pureVars>>

\* Lines 85-86, 95: open(..., "w") fails and leaves the file, or it has
\* truncated the file and the write fails.
WriteReadmeFails ==
    /\ pc = "write"
    /\ readme' \in {readme, <<>>}
    /\ unstaged' = (unstaged \/ readme' # readme)
    /\ failed' = "write"
    /\ pc' = "returned"
    /\ UNCHANGED <<config, last_track_hash, response, track, current_track_hash, locals,
                   uncommitted, unpushed, head, commits, startHash, ops,
                   published, prevFailed, pureVars>>

\* Line 88: git add README.md.
GitAdd ==
    /\ pc = "add"
    /\ unstaged' = FALSE
    /\ uncommitted' = (uncommitted \/ unstaged)
    /\ ops' = Append(ops, "add")
    /\ pc' = "commit"
    /\ UNCHANGED <<config, last_track_hash, response, track, current_track_hash, locals,
                   readme, unpushed, head, commits, startHash, failed, published,
                   prevFailed, pureVars>>

\* A failed git add that is logged and followed by the commit all the same.
GitAddFails_continues ==
    /\ pc = "add"
    /\ failed' = "add"
    /\ pc' = "commit"
    /\ UNCHANGED <<config, last_track_hash, response, track, current_track_hash, locals,
                   readme, repo, startHash, ops, published, prevFailed, pureVars>>

\* Lines 88, 93.
GitAddFails ==
    /\ pc = "add"
    /\ failed' = "add"
    /\ pc' = "returned"
    /\ UNCHANGED <<config, last_track_hash, response, track, current_track_hash, locals,
                   readme, repo, startHash, ops, published, prevFailed, pureVars>>

\* A commit without --amend: one more commit on the branch.
commits_after_commit(n) == n + 1

\* git commit --amend replaces the tip commit: the branch is as long as before.
commits_after_amend(n) == n

\* Lines 89-90: git commit --amend -m with a fresh timestamp; there must
\* be a commit to amend.
GitCommitAmend(now) ==
    /\ pc = "commit"
    /\ commits > 0
    /\ head' = Some(now)
    /\ commits' = commits_after_amend(commits)
    /\ uncommitted' = FALSE
    /\ unpushed' = TRUE
    /\ ops' = Append(ops, "commit")
    /\ pc' = "push"
    /\ UNCHANGED <<config, last_track_hash, response, track, current_track_hash, locals,
                   readme, unstaged, startHash, failed, published,
                   prevFailed, pureVars>>

\* Lines 90, 93.
GitCommitAmendFails ==
    /\ pc = "commit"
    /\ failed' = "commit"
    /\ pc' = "returned"
    /\ UNCHANGED <<config, last_track_hash, response, track, current_track_hash, locals,
                   readme, repo, startHash, ops, published, prevFailed, pureVars>>

\* Lines 91-92: git push --force.
GitPush ==
    /\ pc = "push"
    /\ unpushed' = FALSE
    /\ ops' = Append(ops, "push")
    /\ published' = current_track_hash
    /\ pc' = "returned"
    /\ UNCHANGED <<config, last_track_hash, response, track, current_track_hash, locals,
                   readme, unstaged, uncommitted, head, commits, startHash, failed,
                   prevFailed, pureVars>>

\* Lines 91, 93.
GitPushFails ==
    /\ pc = "push"
    /\ failed' = "push"
    /\ pc' = "returned"
    /\ UNCHANGED <<config, last_track_hash, response, track, current_track_hash, locals,
                   readme, repo, startHash, ops, published, prevFailed, pureVars>>

\* Line 128: update_repo has returned (its locals are gone).
RememberHash ==
    /\ pc = "returned"
    /\ last_track_hash' = hash_after_update(current_track_hash, last_track_hash)
    /\ content' = <<>>
    /\ new_content' = <<>>
    /\ pc' = "sleep"
    /\ UNCHANGED <<config, response, track, current_track_hash, readme, repo,
                   startHash, ops, failed, published, prevFailed, pureVars>>

\* Line 132.
Sleep ==
    /\ pc = "sleep"
    /\ pc' = "fetch"
    /\ UNCHANGED <<config, last_track_hash, response, track, current_track_hash, locals, readme,
                   repo, startHash, ops, failed, published, prevFailed, pureVars>>

Next ==
    \/ ConfigError
    \/ Startup
    \/ StartupNoRepo
    \/ \E resp \in Responses : \E out \in get_current_track(resp) : Fetch(resp, out)
    \/ ReadReadme
    \/ ReadReadmeFails
    \/ \E now \in Stamps : PatchContent(now)
    \/ WriteReadme
    \/ WriteReadmeFails
    \/ GitAdd
    \/ GitAddFails
    \/ \E now \in Stamps : GitCommitAmend(now)
    \/ GitCommitAmendFails
    \/ GitPush
    \/ GitPushFails
    \/ RememberHash
    \/ Sleep

Spec == Init /\ [][Next]_vars

\* ------------------------------------------------- the patch, on its own
\* update_repo's patch (lines 73-86) applied to READMEs drawn from a
\* bounded set, with no file or git failure.

\* A block an earlier run left in the README.
OldBlock == create_now_playing_block(OldTrack, "2024-01-01 00:00:00 IST")

ReadmePieces == { <<"x">>, <<SP>>, <<NL>>, <<NL, NL>>, <<GT>>, <<Marker>>, OldBlock }

\* The READMEs made of at most n pieces.
RECURSIVE ReadmesOf(_)
ReadmesOf(n) ==
    IF n = 0 THEN { <<>> }
    ELSE LET R == ReadmesOf(n - 1) IN R \cup { r \o p : r \in R, p \in ReadmePieces }

\* Track names: plain, a lone backslash, a group reference, a bad escape.
PatchNames == { <<"x">>, <<BS>>, <<BS, "1">>, <<BS, "x">> }

PatchTracks ==
    { [artist |-> <<"x">>, name |-> n, album |-> <<"x">>, url |-> <<"x">>] : n \in PatchNames }

InitPatch ==
    /\ pc = "patching"
    /\ apiKeySet = TRUE
    /\ usernameSet = TRUE
    /\ last_track_hash = None
    /\ response = None
    /\ track = None
    /\ current_track_hash = None
    /\ content = <<>>
    /\ new_content = <<>>
    /\ readme \in ReadmesOf(MaxChunks)
    /\ commits = 1
    /\ unstaged = FALSE
    /\ uncommitted = FALSE
    /\ unpushed = FALSE
    /\ head = Some("initial")
    /\ startHash = None
    /\ ops = <<>>
    /\ failed = ""
    /\ published = None
    /\ prevFailed = None
    /\ patches = 0
    /\ lastBlock = None
    /\ prevBlock = None
    /\ other = None
    /\ otherHash = None

\* Lines 70-86 with a file that can be read and written: content is what
\* was read, new_content the patched text, and the file holds it afterwards
\* unless re.sub raised.
ApplyPatch(t, now) ==
    /\ pc = "patching"
    /\ patches < MaxPatches
    /\ LET b == create_now_playing_block(t, now)
           r == new_content_of(readme, b)
       IN  /\ track' = Some(t)
           /\ content' = readme
           /\ new_content' = IF r.raised THEN <<>> ELSE r.text
           /\ readme' = IF r.raised \/ no_changes(r.text, readme) THEN readme ELSE r.text
           /\ failed' = IF r.raised THEN "sub" ELSE ""
           /\ ops' = Append(ops, IF r.raised THEN "raised"
                                 ELSE IF no_changes(r.text, readme) THEN "same"
                                 ELSE "patch")
           /\ prevBlock' = lastBlock
           /\ lastBlock' = Some(b)
    /\ patches' = patches + 1
    /\ UNCHANGED <<pc, config, last_track_hash, response, current_track_hash, repo,
                   startHash, published, prevFailed, other, otherHash>>

\* The patch specification renders every block at one time, a minute after
\* the block an earlier run left.
PatchStamp == "2024-01-01 00:01:00 IST"

NextPatch == \E t \in PatchTracks : ApplyPatch(t, PatchStamp)

SpecPatch == InitPatch /\ [][NextPatch]_vars

\* -------------------------------------------- the fingerprint, on its own

\* Artist and name values: up to n characters, ':' among them.
RECURSIVE FieldsOf(_)
FieldsOf(n) ==
    IF n = 0 THEN { <<>> }
    ELSE LET F == FieldsOf(n - 1) IN F \cup { f \o <<c>> : f \in F, c \in {"x", ":"} }

HashTracks ==
    { [artist |-> a, name |-> n, album |-> al, url |-> u] :
        a \in FieldsOf(MaxHashFieldLen) \ { <<>> },
        n \in FieldsOf(MaxHashFieldLen) \ { <<>> },
        al \in { <<"x">>, <<":">> },
        u \in { <<"x">>, <<"1">> } }

InitHash ==
    /\ pc = "hashing"
    /\ apiKeySet = TRUE
    /\ usernameSet = TRUE
    /\ last_track_hash = None
    /\ response = None
    /\ track \in { Some(t) : t \in HashTracks }
    /\ current_track_hash = None
    /\ content = <<>>
    /\ new_content = <<>>
    /\ readme = <<>>
    /\ commits = 1
    /\ unstaged = FALSE
    /\ uncommitted = FALSE
    /\ unpushed = FALSE
    /\ head = Some("initial")
    /\ startHash = None
    /\ ops = <<>>
    /\ failed = ""
    /\ published = None
    /\ prevFailed = None
    /\ patches = 0
    /\ lastBlock = None
    /\ prevBlock = None
    /\ other \in { Some(t) : t \in HashTracks }
    /\ otherHash = None

\* get_track_hash on both records.
Fingerprint ==
    /\ pc = "hashing"
    /\ current_track_hash' = get_track_hash(track)
    /\ otherHash' = get_track_hash(other)
    /\ pc' = "hashed"
    /\ UNCHANGED <<config, last_track_hash, response, track, locals, readme, repo,
                   startHash, ops, failed, published, prevFailed,
                   patches, lastBlock, prevBlock, other>>

NextHash == Fingerprint

SpecHash == InitHash /\ [][NextHash]_vars

\* ----------------------------------------------------------------- claims

IsPrefix(p, s) == Len(p) <= Len(s) /\ SubSeq(s, 1, Len(p)) = p
IsSuffix(p, s) == Len(p) <= Len(s) /\ SubSeq(s, Len(s) - Len(p) + 1, Len(s)) = p

\* What a cycle can change outside main's own variables, and the fingerprint.
published_state == <<readme, unstaged, uncommitted, unpushed, head, commits>>

\* C1 (Spec): a cycle in which reading or writing the document, staging,
\* amending or pushing failed ends with last_track_hash as it was when the
\* cycle began.
C1_FailureIsolation ==
    (pc = "sleep" /\ failed \in {"read", "write", "add", "commit", "push"})
        => last_track_hash = startHash

\* C2 (Spec): when stage, amend or push failed in the last cycle and this
\* cycle fetched a track with the same artist, name and album, this cycle
\* ran update_repo and did not take the "Track hasn't changed" branch.
C2_RetryAfterFailure ==
    (pc = "sleep" /\ prevFailed # None /\ track # None
        /\ get_track_hash(track) = prevFailed)
        => (ops # <<>> \/ failed # "")

\* C3 (Spec): between cycles last_track_hash is the initial None or the
\* fingerprint of the last publish that ran through write, stage, amend
\* and push.
C3_HashIsLastPublished ==
    pc \in {"fetch", "sleep"} => last_track_hash \in {None, published}

\* C4 (Spec): in a cycle whose fetched track has the fingerprint that
\* last_track_hash held when the cycle began, no step writes the document,
\* stages, amends or pushes, and last_track_hash stays.
C4_NoOpDetection ==
    [][(track' # None /\ get_track_hash(track') = startHash')
          => UNCHANGED <<published_state, last_track_hash>>]_vars

\* C4 witness: a cycle that fetched the track already remembered has
\* reached the sleep step.
C4_Witness ==
    /\ pc = "sleep"
    /\ track # None
    /\ startHash # None
    /\ get_track_hash(track) = startHash
    /\ ops = <<>>

\* C5 (Spec): no outcome of a cycle's fetch, document or git steps ends the
\* process: main never leaves the loop with an exception.
C5_NoCycleErrorTerminates == pc # "crashed"

\* The failures of a fetch: no answer, a rejected status, a body that is
\* not JSON, no first event, or a first event with a key missing.
IsFetchFailure(resp) ==
    \/ resp.kind # "json"
    \/ Len(resp.events) = 0
    \/ None \in {resp.events[1].artist, resp.events[1].name,
                 resp.events[1].album, resp.events[1].url}

\* C6 (Spec): on every failed fetch get_current_track returns None to
\* main and raises nothing.
C6_FetchFailureReturnsNone ==
    (response # None /\ IsFetchFailure(response[1]))
        => (pc # "crashed" /\ track = None)

\* C7 (SpecPatch): patching the patched text again with the same block
\* gives the same text.
C7_PatchIdempotent ==
    (patches >= 2 /\ lastBlock = prevBlock /\ ops[patches - 1] # "raised")
        => (failed = "" /\ new_content = content)

\* The region re.search finds in s: its first and last positions.
RegionStart(s) == FindFrom(s, 1)
RegionEnd(s) == MatchEnd(s, RegionStart(s))

\* C8 (SpecPatch): when the document read holds a block region, the patched
\* text is the text before the region, a replacement, and the text after
\* the region.
C8_PatchLocality ==
    (patches >= 1 /\ failed = "" /\ re_search(content))
        => LET before == SubSeq(content, 1, RegionStart(content) - 1)
               after == SubSeq(content, RegionEnd(content) + 1, Len(content))
           IN  /\ IsPrefix(before, new_content)
               /\ IsSuffix(after, new_content)
               /\ Len(before) + Len(after) <= Len(new_content)

\* C9 (SpecPatch): a document without a block region becomes its text up
\* to the last character that is not whitespace, then two newlines, then
\* the rendered block; that text differs from the document and is written.
C9_AppendPath ==
    (patches >= 1 /\ ~re_search(content))
        => /\ failed = ""
           /\ \E k \in 0..Len(content) :
                 /\ k = 0 \/ ~IsSpace(content[k])
                 /\ \A j \in (k + 1)..Len(content) : IsSpace(content[j])
                 /\ new_content = SubSeq(content, 1, k) \o <<NL, NL>> \o lastBlock[1]
           /\ new_content # content
           /\ readme = new_content

\* C9 witness: a document with text, trailing whitespace and no block
\* region has been patched.
C9_Witness ==
    /\ patches = 1
    /\ ~re_search(content)
    /\ Len(content) > 1
    /\ ~IsSpace(content[1])
    /\ IsSpace(content[Len(content)])
    /\ readme = new_content

\* C10 (SpecHash): two records that differ in artist, name or album have
\* different fingerprints, and two that differ only in url have the same.
C10_FingerprintSensitivity ==
    pc = "hashed" =>
        LET a == track[1]
            b == other[1]
        IN  (a.artist = b.artist /\ a.name = b.name /\ a.album = b.album)
                <=> current_track_hash = otherHash

\* The write, stage, amend and push steps completed in this cycle, in order.
PublishOps == SelectSeq(ops, LAMBDA o : o \in {"write", "add", "commit", "push"})

\* C11 (Spec): within a cycle the document write comes before the stage,
\* the stage before the amend and the amend before the push, each at most
\* once, and after a failed step no later step runs.
C11_PublishOrdering ==
    /\ IsPrefix(PublishOps, <<"write", "add", "commit", "push">>)
    /\ failed \in {"read", "sub", "write"} => PublishOps = <<>>
    /\ failed = "add" => PublishOps = <<"write">>
    /\ failed = "commit" => PublishOps = <<"write", "add">>
    /\ failed = "push" => PublishOps = <<"write", "add", "commit">>
    /\ pc = "add" => PublishOps = <<"write">>
    /\ pc = "commit" => PublishOps = <<"write", "add">>
    /\ pc = "push" => PublishOps = <<"write", "add", "commit">>

\* C11 witness: a cycle has written, staged, amended and pushed.
C11_Witness ==
    pc = "returned" /\ PublishOps = <<"write", "add", "commit", "push">>

\* C12 (Spec): no step changes the number of commits on the local branch.
C12_HistoryLengthConstant == [][commits' = commits]_vars

\* C12 witness: the tip commit has been amended and pushed in a cycle that
\* follows an earlier update.
C12_Witness ==
    /\ pc = "returned"
    /\ PublishOps = <<"write", "add", "commit", "push">>
    /\ head # Some("initial")
    /\ commits > 0
    /\ last_track_hash # None

\* C13 (Spec): with the API key or the user name missing, main stops
\* before the loop: nothing is fetched, the document is neither read nor
\* written and no git command runs.
C13_ConfigErrorIsFatal ==
    (~apiKeySet \/ ~usernameSet)
        => /\ pc \in {"start", "exited"}
           /\ response = None
           /\ ops = <<>>
           /\ failed = ""
           /\ readme \in LoopReadmes
           /\ ~unstaged /\ ~uncommitted /\ ~unpushed
           /\ head \in {None, Some("initial")}
           /\ last_track_hash = None

\* C13 witness: main has returned because exactly one value was missing.
C13_Witness ==
    pc = "exited" /\ (apiKeySet # usernameSet)

\* C14 (Spec): a cycle ends with the document written and the tip commit
\* amended, or with neither.
C14_WriteAmendAtomic ==
    pc = "sleep" =>
        (\E i \in 1..Len(ops) : ops[i] = "write")
            <=> (\E i \in 1..Len(ops) : ops[i] = "commit")

\* C18 (Spec): once update_repo has computed a text equal to the text it
\* read, it returns: README.md is not written and nothing is staged,
\* amended or pushed in that cycle.
C18_UnchangedTextIsNoOp ==
    [][(/\ pc \in {"write", "add", "commit", "push", "returned"}
        /\ Len(ops) >= 2
        /\ new_content = content)
          => /\ pc = "returned"
             /\ PublishOps = <<>>
             /\ UNCHANGED published_state]_vars

\* C18 witness: the patched text of a README that holds a block equals the
\* text read, and update_repo has returned.
C18_Witness ==
    /\ pc = "returned"
    /\ ops = <<"read", "same">>
    /\ content # <<>>
    /\ new_content = content

\* C19 (Spec): a cycle whose fetch returned None reads nothing, writes
\* nothing, runs no git command and keeps last_track_hash; a track fetched
\* right after it whose fingerprint is the remembered one is skipped.
C19_AbsentIsPureSkip ==
    [][/\ (pc \in {"fetch", "sleep"} /\ response' # None /\ track' = None /\ pc' # "crashed")
          => /\ UNCHANGED <<published_state, last_track_hash>>
             /\ ops' = <<>>
             /\ pc' \in {"sleep", "fetch"}
       /\ (/\ pc = "fetch" /\ response # None /\ track = None
           /\ track' # None /\ pc' # "crashed"
           /\ last_track_hash # None
           /\ get_track_hash(track') = last_track_hash)
          => pc' = "sleep" /\ ops' = <<>>]_vars

\* C19 witness: a fetch has returned None in a cycle after one that
\* updated the repository, and the cycle is at its sleep.
C19_Witness ==
    /\ pc = "sleep"
    /\ response # None
    /\ track = None
    /\ ops = <<>>
    /\ last_track_hash # None
    /\ last_track_hash = published

\* C15 (SpecPatch): when the document read holds a block region, re.sub
\* does not raise and the patched text holds, where the region began, the
\* stripped rendered block character for character.
C15_VerbatimReplacement ==
    (patches >= 1 /\ re_search(content))
        => /\ failed = ""
           /\ IsPrefix(SubSeq(content, 1, RegionStart(content) - 1) \o strip(lastBlock[1]),
                       new_content)

\* The number of disjoint regions of s that match the pattern, counted from
\* position i left to right.
RECURSIVE RegionsFrom(_, _)
RegionsFrom(s, i) ==
    IF i > Len(s) THEN 0
    ELSE IF MatchEnd(s, i) > 0 THEN 1 + RegionsFrom(s, MatchEnd(s, i) + 1)
    ELSE RegionsFrom(s, i + 1)

Regions(s) == RegionsFrom(s, 1)

\* C16 (SpecPatch): when the document read holds several block regions and
\* re.sub does not raise, the text after the first region, later regions
\* included, is kept as it was.
C16_FirstMatchOnly ==
    (patches >= 1 /\ failed = "" /\ Regions(content) >= 2)
        => IsSuffix(SubSeq(content, RegionEnd(content) + 1, Len(content)), new_content)

\* The number of lines that begin with '>' directly after the line that
\* ends at position e.
RECURSIVE Continuations(_, _)
Continuations(s, e) ==
    IF e + 2 <= Len(s) /\ s[e + 1] = NL /\ StartsWithGT(s[e + 2])
    THEN 1 + Continuations(s, LineEnd(s, e + 3))
    ELSE 0

\* s holds a marker followed by at least n continuation lines.
HasBlockShape(s, n) ==
    \E i \in 1..Len(s) : s[i] = Marker /\ Continuations(s, LineEnd(s, i + 1)) >= n

\* The text the append path gives for the last patch.
Appended == rstrip(content) \o <<NL, NL>> \o lastBlock[1]

\* C17 as stated (SpecPatch): a document with a marker line followed by one
\* or more continuation lines is patched by replacement, not by appending.
C17_OneOrMoreContinuations ==
    (patches >= 1 /\ HasBlockShape(content, 1))
        => ~(failed = "" /\ new_content = Appended)

\* C17 amended (SpecPatch): the region found is a marker followed by two or
\* more continuation lines, taken up to the last directly following
\* continuation line; a document with such a region is patched by
\* replacement, and any other document, one whose marker lines have a single
\* continuation line included, gets the block appended.
C17_BlockRecognition ==
    patches >= 1 =>
        /\ re_search(content) <=> HasBlockShape(content, 2)
        /\ HasBlockShape(content, 2)
              => /\ ~(failed = "" /\ new_content = Appended)
                 /\ content[RegionStart(content)] = Marker
                 /\ Continuations(content, LineEnd(content, RegionStart(content) + 1)) >= 2
                 /\ ~ContinuesAt(content, RegionEnd(content))
                 /\ \A j \in RegionStart(content)..RegionEnd(content) :
                       content[j] = NL => StartsWithGT(content[j + 1])
        /\ ~HasBlockShape(content, 2) => (failed = "" /\ new_content = Appended)

\* C17 witness: a document whose marker line has exactly one continuation
\* line has been patched, and the block was appended.
C17_Witness ==
    /\ patches = 1
    /\ HasBlockShape(content, 1)
    /\ ~HasBlockShape(content, 2)
    /\ new_content = Appended
    /\ readme = new_content

\* C20 (SpecPatch): after a patch of a document with at most one block
\* region, the document holds exactly one block region, and it is the
\* stripped block of the track just patched.
C20_SingleBlock ==
    (patches >= 1 /\ Regions(content) <= 1)
        => /\ Regions(readme) = 1
           /\ SubSeq(readme, RegionStart(readme), RegionEnd(readme)) = strip(lastBlock[1])
====
